---- MODULE Spec2Model ----
(***************************************************************************)
(* A model of the selector dispatch of src/x86/sse2.rs: the whole-vector   *)
(* byte shifts (_mm_slli_si128, _mm_srli_si128) and the shuffles driven by *)
(* a control byte (_mm_shuffle_epi32, _mm_shufflehi_epi16,                 *)
(* _mm_shufflelo_epi16).                                                   *)
(*                                                                         *)
(* A vector of N lanes is a function on 0..N-1 (lane 0 first).  The        *)
(* intrinsics are pure functions, so each is an operator computed the way  *)
(* the source computes it (cast, match, index arithmetic, permutation      *)
(* primitive), and a specification draws the input vector in Init and      *)
(* applies the intrinsics in its actions, each action drawing its selector *)
(* argument.  `calls` is the log of the calls made so far.                 *)
(***************************************************************************)
EXTENDS Integers, Sequences, FiniteSets, TLC

VARIABLES
    a,      \* the vector the caller starts from
    calls   \* the calls made so far: <<[op, a, imm8, r], ...>>

vars == <<a, calls>>

---------------------------------------------------------------------------
(* Bounds of the input sets.                                               *)

\* seeds s of the ramp vectors  lane j |-> s + j * m
MaxSeed == 1
\* strides m of the ramp vectors
MaxStride == 1
\* byte-shift distances below 0 that are drawn: -MaxNeg .. -1
MaxNeg == 2
\* byte-shift distances above 15 that are drawn: 16 .. 15 + MaxOver
MaxOver == 3
\* control values c + 256 * k are drawn for k in -MaxWrap .. MaxWrap
MaxWrap == 1

---------------------------------------------------------------------------
(* Machine integers.  TLC's integers are 32 bits wide, so an i32 is itself *)
(* and a u32 is kept as its two 16-bit limbs.                              *)

I32_MIN == -2147483647 - 1
I32_MAX == 2147483647

\* `x as i8`: the low 8 bits of x read as a signed byte
as_i8(x) == LET m == x % 256 IN IF m >= 128 THEN m - 256 ELSE m

\* `x as i16`: the low 16 bits of x read as a signed 16-bit integer
as_i16(x) == LET m == x % 65536 IN IF m >= 32768 THEN m - 65536 ELSE m

\* `x as u32` for an i32 x: the same 32 bits, as limbs
as_u32(x) == [hi |-> (x \div 65536) % 65536, lo |-> x % 65536]

\* a u32 literal k (0 <= k < 65536) as limbs
u32_lit(k) == [hi |-> 0, lo |-> k]

\* `x as u8` for an i32 x: the low 8 bits
as_u8(x) == x % 256

\* bitwise and of two naturals
RECURSIVE BitAnd(_, _)
BitAnd(x, y) ==
    IF x = 0 \/ y = 0
    THEN 0
    ELSE (x % 2) * (y % 2) + 2 * BitAnd(x \div 2, y \div 2)

\* `x & y` on i32: and of the two's complement bit patterns, read as i32
i32_and(x, y) ==
    LET ux == as_u32(x)
        uy == as_u32(y)
        hi == BitAnd(ux.hi, uy.hi)
        lo == BitAnd(ux.lo, uy.lo)
    IN  IF hi >= 32768 THEN (hi - 65536) * 65536 + lo ELSE hi * 65536 + lo

\* `x >> k` on an unsigned value
shr(x, k) == x \div (2 ^ k)

---------------------------------------------------------------------------
(* The vectors and the permutation primitive.                              *)

\* T::splat(x) for an n-lane vector type
splat(n, x) == [j \in 0 .. n - 1 |-> x]

\* simd_shuffleN(x, y, idx): lane j of the result is lane idx[j] of the
\* concatenation of x and y (x first); idx is a tuple of n lane indices,
\* written in the source as an array literal
simd_shuffle(n, x, y, idx) ==
    [j \in 0 .. n - 1 |->
        IF idx[j + 1] < n THEN x[idx[j + 1]] ELSE y[idx[j + 1] - n]]

simd_shuffle4(x, y, idx) == simd_shuffle(4, x, y, idx)

simd_shuffle8(x, y, idx) == simd_shuffle(8, x, y, idx)

simd_shuffle16(x, y, idx) == simd_shuffle(16, x, y, idx)

---------------------------------------------------------------------------
(* _mm_slli_si128                                                          *)

\* const fn sub(a: u32, b: u32) -> u32 { a - b }
sub(x, y) == x - y

\* the index array of the macro shuffle!($shift) of _mm_slli_si128
slli_indices(shift) ==
    << sub(16, shift), sub(17, shift), sub(18, shift), sub(19, shift),
       sub(20, shift), sub(21, shift), sub(22, shift), sub(23, shift),
       sub(24, shift), sub(25, shift), sub(26, shift), sub(27, shift),
       sub(28, shift), sub(29, shift), sub(30, shift), sub(31, shift) >>

\* slli_shuffle with the operands of the primitive exchanged
slli_shuffle_swapped(v, shift) ==
    LET zero == splat(16, 0)
    IN  simd_shuffle16(v, zero, slli_indices(shift))

\* the macro shuffle!($shift) of _mm_slli_si128
slli_shuffle(v, shift) ==
    LET zero == splat(16, 0)
    IN  simd_shuffle16(zero, v, slli_indices(shift))

\* _mm_slli_si128 with the arm `15 => shuffle!(15)` left out
slli_without_arm_15(v, imm8) ==
    IF imm8 \in 0 .. 14 THEN slli_shuffle(v, imm8) ELSE slli_shuffle(v, 16)

\* the match of _mm_slli_si128 with a mistyped arm, `8 => shuffle!(9)`
slli_match_arm_8_mistyped(v, u) ==
    IF u.hi = 0 /\ u.lo \in 0 .. 15
    THEN slli_shuffle(v, IF u.lo = 8 THEN 9 ELSE u.lo)
    ELSE slli_shuffle(v, 16)

\* the literal that the arm taken by the match on the local `imm8` (a u32)
\* of _mm_slli_si128 passes to shuffle!: `0 => shuffle!(0)`, ..,
\* `15 => shuffle!(15)`, `_ => shuffle!(16)`
slli_arm(u) ==
    CASE u = u32_lit(0) -> 0
      [] u = u32_lit(1) -> 1
      [] u = u32_lit(2) -> 2
      [] u = u32_lit(3) -> 3
      [] u = u32_lit(4) -> 4
      [] u = u32_lit(5) -> 5
      [] u = u32_lit(6) -> 6
      [] u = u32_lit(7) -> 7
      [] u = u32_lit(8) -> 8
      [] u = u32_lit(9) -> 9
      [] u = u32_lit(10) -> 10
      [] u = u32_lit(11) -> 11
      [] u = u32_lit(12) -> 12
      [] u = u32_lit(13) -> 13
      [] u = u32_lit(14) -> 14
      [] u = u32_lit(15) -> 15
      [] OTHER -> 16

\* the match on the local `imm8` (a u32) of _mm_slli_si128
slli_match(v, u) == slli_shuffle(v, slli_arm(u))

\* let (zero, imm8) = (__m128i::splat(0), imm8 as u32); match imm8 { .. }
_mm_slli_si128(v, imm8) == slli_match(v, as_u32(imm8))

---------------------------------------------------------------------------
(* _mm_srli_si128                                                          *)

\* const fn add(a: u32, b: u32) -> u32 { a + b }
add(x, y) == x + y

\* the index array of the macro shuffle!($shift) of _mm_srli_si128
srli_indices(shift) ==
    << add(0, shift), add(1, shift), add(2, shift), add(3, shift),
       add(4, shift), add(5, shift), add(6, shift), add(7, shift),
       add(8, shift), add(9, shift), add(10, shift), add(11, shift),
       add(12, shift), add(13, shift), add(14, shift), add(15, shift) >>

\* srli_shuffle with the operands of the primitive exchanged
srli_shuffle_swapped(v, shift) ==
    LET zero == splat(16, 0)
    IN  simd_shuffle16(zero, v, srli_indices(shift))

\* the macro shuffle!($shift) of _mm_srli_si128
srli_shuffle(v, shift) ==
    LET zero == splat(16, 0)
    IN  simd_shuffle16(v, zero, srli_indices(shift))

\* _mm_srli_si128 keeping the low four bits of the distance instead of
\* sending every distance outside 0..15 to the arm `_ => shuffle!(16)`
srli_masks_distance(v, imm8) == srli_shuffle(v, imm8 % 16)

\* _mm_srli_si128 with a mistyped arm, `7 => shuffle!(8)`
srli_arm_mistyped(v, imm8) ==
    IF imm8 \in 0 .. 15
    THEN srli_shuffle(v, IF imm8 = 7 THEN 8 ELSE imm8)
    ELSE srli_shuffle(v, 16)

\* _mm_srli_si128 with the last arm one short, `_ => shuffle!(15)`
srli_default_arm_15(v, imm8) ==
    IF imm8 \in 0 .. 15 THEN srli_shuffle(v, imm8) ELSE srli_shuffle(v, 15)

\* srli_arm with the last arm passing no shift, `_ => shuffle!(0)`
srli_arm_wildcard_zero(u) ==
    IF u.hi = 0 /\ u.lo \in 0 .. 15 THEN u.lo ELSE 0

\* the literal that the arm taken by the match on the local `imm8` (a u32)
\* of _mm_srli_si128 passes to shuffle!: `0 => shuffle!(0)`, ..,
\* `15 => shuffle!(15)`, `_ => shuffle!(16)`
srli_arm(u) ==
    CASE u = u32_lit(0) -> 0
      [] u = u32_lit(1) -> 1
      [] u = u32_lit(2) -> 2
      [] u = u32_lit(3) -> 3
      [] u = u32_lit(4) -> 4
      [] u = u32_lit(5) -> 5
      [] u = u32_lit(6) -> 6
      [] u = u32_lit(7) -> 7
      [] u = u32_lit(8) -> 8
      [] u = u32_lit(9) -> 9
      [] u = u32_lit(10) -> 10
      [] u = u32_lit(11) -> 11
      [] u = u32_lit(12) -> 12
      [] u = u32_lit(13) -> 13
      [] u = u32_lit(14) -> 14
      [] u = u32_lit(15) -> 15
      [] OTHER -> 16

\* the match on the local `imm8` (a u32) of _mm_srli_si128
srli_match(v, u) == srli_shuffle(v, srli_arm(u))

\* let (zero, imm8) = (__m128i::splat(0), imm8 as u32); match imm8 { .. }
_mm_srli_si128(v, imm8) == srli_match(v, as_u32(imm8))

---------------------------------------------------------------------------
(* _mm_shuffle_epi32: a match on each 2-bit field of the control byte,     *)
(* nested four deep, each leaf a call of the primitive with four literals. *)

\* shuffle_done! of _mm_shuffle_epi32 with the fields in the reverse order
shuffle_epi32_done_reversed(v, x01, x23, x45, x67) ==
    simd_shuffle4(v, v, <<x67, x45, x23, x01>>)

\* the index array of shuffle_done! of _mm_shuffle_epi32 with its first
\* index taken from the second operand
shuffle_epi32_done_indices_second(x01, x23, x45, x67) ==
    <<x01 + 4, x23, x45, x67>>

\* the index array of shuffle_done! of _mm_shuffle_epi32
shuffle_epi32_done_indices(x01, x23, x45, x67) == <<x01, x23, x45, x67>>

\* the macro shuffle_done!($x01, $x23, $x45, $x67) of _mm_shuffle_epi32
shuffle_epi32_done(v, x01, x23, x45, x67) ==
    simd_shuffle4(v, v, shuffle_epi32_done_indices(x01, x23, x45, x67))

\* shuffle_x67! of _mm_shuffle_epi32 with a mistyped last arm,
\* `_ => shuffle_done!($x01, $x23, $x45, 2)`
shuffle_epi32_x67_mistyped(v, c, x01, x23, x45) ==
    LET f == BitAnd(shr(c, 6), 3)
    IN  CASE f = 0 -> shuffle_epi32_done(v, x01, x23, x45, 0)
          [] f = 1 -> shuffle_epi32_done(v, x01, x23, x45, 1)
          [] OTHER -> shuffle_epi32_done(v, x01, x23, x45, 2)

\* the macro shuffle_x67!($x01, $x23, $x45) of _mm_shuffle_epi32
shuffle_epi32_x67(v, c, x01, x23, x45) ==
    LET f == BitAnd(shr(c, 6), 3)
    IN  CASE f = 0 -> shuffle_epi32_done(v, x01, x23, x45, 0)
          [] f = 1 -> shuffle_epi32_done(v, x01, x23, x45, 1)
          [] f = 2 -> shuffle_epi32_done(v, x01, x23, x45, 2)
          [] OTHER -> shuffle_epi32_done(v, x01, x23, x45, 3)

\* shuffle_x45! of _mm_shuffle_epi32 passing its literal down in the place
\* of $x23 as well, `shuffle_x67!($x01, 0, 0)` and so on
shuffle_epi32_x45_coupled(v, c, x01, x23) ==
    LET f == BitAnd(shr(c, 4), 3)
    IN  CASE f = 0 -> shuffle_epi32_x67(v, c, x01, 0, 0)
          [] f = 1 -> shuffle_epi32_x67(v, c, x01, 1, 1)
          [] f = 2 -> shuffle_epi32_x67(v, c, x01, 2, 2)
          [] OTHER -> shuffle_epi32_x67(v, c, x01, 3, 3)

\* the macro shuffle_x45!($x01, $x23) of _mm_shuffle_epi32
shuffle_epi32_x45(v, c, x01, x23) ==
    LET f == BitAnd(shr(c, 4), 3)
    IN  CASE f = 0 -> shuffle_epi32_x67(v, c, x01, x23, 0)
          [] f = 1 -> shuffle_epi32_x67(v, c, x01, x23, 1)
          [] f = 2 -> shuffle_epi32_x67(v, c, x01, x23, 2)
          [] OTHER -> shuffle_epi32_x67(v, c, x01, x23, 3)

\* shuffle_x23! of _mm_shuffle_epi32 with a mistyped arm,
\* `0b01 => shuffle_x45!($x01, 0)`
shuffle_epi32_x23_mistyped(v, c, x01) ==
    LET f == BitAnd(shr(c, 2), 3)
    IN  CASE f = 0 -> shuffle_epi32_x45(v, c, x01, 0)
          [] f = 1 -> shuffle_epi32_x45(v, c, x01, 0)
          [] f = 2 -> shuffle_epi32_x45(v, c, x01, 2)
          [] OTHER -> shuffle_epi32_x45(v, c, x01, 3)

\* the macro shuffle_x23!($x01) of _mm_shuffle_epi32
shuffle_epi32_x23(v, c, x01) ==
    LET f == BitAnd(shr(c, 2), 3)
    IN  CASE f = 0 -> shuffle_epi32_x45(v, c, x01, 0)
          [] f = 1 -> shuffle_epi32_x45(v, c, x01, 1)
          [] f = 2 -> shuffle_epi32_x45(v, c, x01, 2)
          [] OTHER -> shuffle_epi32_x45(v, c, x01, 3)

\* _mm_shuffle_epi32 clamping the control value to 0..255 instead of
\* masking it with 0xFF
shuffle_epi32_clamped(v, imm8) ==
    LET c == IF imm8 > 255 THEN 255 ELSE IF imm8 < 0 THEN 0 ELSE imm8
    IN  shuffle_epi32_x23(v, c, BitAnd(c, 3))

\* the outer match of _mm_shuffle_epi32 with a mistyped arm,
\* `0b10 => shuffle_x23!(1)`
shuffle_epi32_x01_mistyped(v, c) ==
    LET f == BitAnd(c, 3)
    IN  CASE f = 0 -> shuffle_epi32_x23(v, c, 0)
          [] f = 1 -> shuffle_epi32_x23(v, c, 1)
          [] f = 2 -> shuffle_epi32_x23(v, c, 1)
          [] OTHER -> shuffle_epi32_x23(v, c, 3)

\* the outer match, on bits 1..0 of the local `imm8` (a u8), of _mm_shuffle_epi32
shuffle_epi32_x01(v, c) ==
    LET f == BitAnd(c, 3)
    IN  CASE f = 0 -> shuffle_epi32_x23(v, c, 0)
          [] f = 1 -> shuffle_epi32_x23(v, c, 1)
          [] f = 2 -> shuffle_epi32_x23(v, c, 2)
          [] OTHER -> shuffle_epi32_x23(v, c, 3)

\* let imm8 = (imm8 & 0xFF) as u8; match imm8 & 0b11 { .. }
_mm_shuffle_epi32(v, imm8) == shuffle_epi32_x01(v, as_u8(i32_and(imm8, 255)))

---------------------------------------------------------------------------
(* _mm_shufflehi_epi16                                                     *)

\* add4 without its addition
add4_forgotten(x) == x

\* const fn add4(x: u32) -> u32 { x + 4 }
add4(x) == x + 4

\* shuffle_done! of _mm_shufflehi_epi16 with the index array of
\* _mm_shufflelo_epi16
shufflehi_epi16_done_low(v, x01, x23, x45, x67) ==
    simd_shuffle8(v, v, <<x01, x23, x45, x67, 4, 5, 6, 7>>)

\* the index array of shuffle_done! of _mm_shufflehi_epi16
shufflehi_epi16_done_indices(x01, x23, x45, x67) ==
    <<0, 1, 2, 3, add4(x01), add4(x23), add4(x45), add4(x67)>>

\* the macro shuffle_done!($x01, $x23, $x45, $x67) of _mm_shufflehi_epi16
shufflehi_epi16_done(v, x01, x23, x45, x67) ==
    simd_shuffle8(v, v, shufflehi_epi16_done_indices(x01, x23, x45, x67))

\* the macro shuffle_x67!($x01, $x23, $x45) of _mm_shufflehi_epi16
shufflehi_epi16_x67(v, c, x01, x23, x45) ==
    LET f == BitAnd(shr(c, 6), 3)
    IN  CASE f = 0 -> shufflehi_epi16_done(v, x01, x23, x45, 0)
          [] f = 1 -> shufflehi_epi16_done(v, x01, x23, x45, 1)
          [] f = 2 -> shufflehi_epi16_done(v, x01, x23, x45, 2)
          [] OTHER -> shufflehi_epi16_done(v, x01, x23, x45, 3)

\* the macro shuffle_x45!($x01, $x23) of _mm_shufflehi_epi16
shufflehi_epi16_x45(v, c, x01, x23) ==
    LET f == BitAnd(shr(c, 4), 3)
    IN  CASE f = 0 -> shufflehi_epi16_x67(v, c, x01, x23, 0)
          [] f = 1 -> shufflehi_epi16_x67(v, c, x01, x23, 1)
          [] f = 2 -> shufflehi_epi16_x67(v, c, x01, x23, 2)
          [] OTHER -> shufflehi_epi16_x67(v, c, x01, x23, 3)

\* shuffle_x23! of _mm_shufflehi_epi16 with a mistyped arm,
\* `0b10 => shuffle_x45!($x01, 3)`
shufflehi_epi16_x23_mistyped(v, c, x01) ==
    LET f == BitAnd(shr(c, 2), 3)
    IN  CASE f = 0 -> shufflehi_epi16_x45(v, c, x01, 0)
          [] f = 1 -> shufflehi_epi16_x45(v, c, x01, 1)
          [] OTHER -> shufflehi_epi16_x45(v, c, x01, 3)

\* the macro shuffle_x23!($x01) of _mm_shufflehi_epi16
shufflehi_epi16_x23(v, c, x01) ==
    LET f == BitAnd(shr(c, 2), 3)
    IN  CASE f = 0 -> shufflehi_epi16_x45(v, c, x01, 0)
          [] f = 1 -> shufflehi_epi16_x45(v, c, x01, 1)
          [] f = 2 -> shufflehi_epi16_x45(v, c, x01, 2)
          [] OTHER -> shufflehi_epi16_x45(v, c, x01, 3)

\* the outer match, on bits 1..0 of the local `imm8` (a u8), of _mm_shufflehi_epi16
shufflehi_epi16_x01(v, c) ==
    LET f == BitAnd(c, 3)
    IN  CASE f = 0 -> shufflehi_epi16_x23(v, c, 0)
          [] f = 1 -> shufflehi_epi16_x23(v, c, 1)
          [] f = 2 -> shufflehi_epi16_x23(v, c, 2)
          [] OTHER -> shufflehi_epi16_x23(v, c, 3)

\* let imm8 = (imm8 & 0xFF) as u8; match imm8 & 0b11 { .. }
_mm_shufflehi_epi16(v, imm8) == shufflehi_epi16_x01(v, as_u8(i32_and(imm8, 255)))

---------------------------------------------------------------------------
(* _mm_shufflelo_epi16                                                     *)

\* shuffle_done! of _mm_shufflelo_epi16 taking its first operand to be a
\* zero vector, as the byte shifts do
shufflelo_epi16_done_zero(v, x01, x23, x45, x67) ==
    simd_shuffle8(splat(8, 0), v, <<x01, x23, x45, x67, 4, 5, 6, 7>>)

\* the index array of shuffle_done! of _mm_shufflelo_epi16
shufflelo_epi16_done_indices(x01, x23, x45, x67) ==
    <<x01, x23, x45, x67, 4, 5, 6, 7>>

\* the macro shuffle_done!($x01, $x23, $x45, $x67) of _mm_shufflelo_epi16
shufflelo_epi16_done(v, x01, x23, x45, x67) ==
    simd_shuffle8(v, v, shufflelo_epi16_done_indices(x01, x23, x45, x67))

\* the macro shuffle_x67!($x01, $x23, $x45) of _mm_shufflelo_epi16
shufflelo_epi16_x67(v, c, x01, x23, x45) ==
    LET f == BitAnd(shr(c, 6), 3)
    IN  CASE f = 0 -> shufflelo_epi16_done(v, x01, x23, x45, 0)
          [] f = 1 -> shufflelo_epi16_done(v, x01, x23, x45, 1)
          [] f = 2 -> shufflelo_epi16_done(v, x01, x23, x45, 2)
          [] OTHER -> shufflelo_epi16_done(v, x01, x23, x45, 3)

\* shuffle_x45! of _mm_shufflelo_epi16 with a mistyped arm,
\* `0b10 => shuffle_x67!($x01, $x23, 1)`
shufflelo_epi16_x45_mistyped(v, c, x01, x23) ==
    LET f == BitAnd(shr(c, 4), 3)
    IN  CASE f = 0 -> shufflelo_epi16_x67(v, c, x01, x23, 0)
          [] f = 1 -> shufflelo_epi16_x67(v, c, x01, x23, 1)
          [] f = 2 -> shufflelo_epi16_x67(v, c, x01, x23, 1)
          [] OTHER -> shufflelo_epi16_x67(v, c, x01, x23, 3)

\* the macro shuffle_x45!($x01, $x23) of _mm_shufflelo_epi16
shufflelo_epi16_x45(v, c, x01, x23) ==
    LET f == BitAnd(shr(c, 4), 3)
    IN  CASE f = 0 -> shufflelo_epi16_x67(v, c, x01, x23, 0)
          [] f = 1 -> shufflelo_epi16_x67(v, c, x01, x23, 1)
          [] f = 2 -> shufflelo_epi16_x67(v, c, x01, x23, 2)
          [] OTHER -> shufflelo_epi16_x67(v, c, x01, x23, 3)

\* the macro shuffle_x23!($x01) of _mm_shufflelo_epi16
shufflelo_epi16_x23(v, c, x01) ==
    LET f == BitAnd(shr(c, 2), 3)
    IN  CASE f = 0 -> shufflelo_epi16_x45(v, c, x01, 0)
          [] f = 1 -> shufflelo_epi16_x45(v, c, x01, 1)
          [] f = 2 -> shufflelo_epi16_x45(v, c, x01, 2)
          [] OTHER -> shufflelo_epi16_x45(v, c, x01, 3)

\* the outer match, on bits 1..0 of the local `imm8` (a u8), of _mm_shufflelo_epi16
shufflelo_epi16_x01(v, c) ==
    LET f == BitAnd(c, 3)
    IN  CASE f = 0 -> shufflelo_epi16_x23(v, c, 0)
          [] f = 1 -> shufflelo_epi16_x23(v, c, 1)
          [] f = 2 -> shufflelo_epi16_x23(v, c, 2)
          [] OTHER -> shufflelo_epi16_x23(v, c, 3)

\* let imm8 = (imm8 & 0xFF) as u8; match imm8 & 0b11 { .. }
_mm_shufflelo_epi16(v, imm8) == shufflelo_epi16_x01(v, as_u8(i32_and(imm8, 255)))

---------------------------------------------------------------------------
(* _mm_extract_epi16 and _mm_insert_epi16: the lane index is the selector  *)
(* masked to three bits.  A call that can panic returns [ok, val], ok      *)
(* being FALSE when it panicked.                                           *)

\* `x & y` on u32, limb by limb
u32_and(x, y) == [hi |-> BitAnd(x.hi, y.hi), lo |-> BitAnd(x.lo, y.lo)]

\* `x as i32` reading the 16 bits of x as unsigned (zero extension)
i16_as_i32_zero_extended(x) == x % 65536

\* `x as i32` for an i16 x: the 16 bits of x, sign-extended
i16_as_i32(x) == LET m == x % 65536 IN IF m >= 32768 THEN m - 65536 ELSE m

\* i16x8::extract(idx): lane idx of v; idx is a u32 and must be below the
\* lane count
extract(v, idx) ==
    IF idx.hi = 0 /\ idx.lo \in DOMAIN v
    THEN [ok |-> TRUE, val |-> v[idx.lo]]
    ELSE [ok |-> FALSE, val |-> 0]

\* i16x8::replace(idx, x): v with lane idx set to x; idx is a u32 and must
\* be below the lane count
replace(v, idx, x) ==
    IF idx.hi = 0 /\ idx.lo \in DOMAIN v
    THEN [ok |-> TRUE, val |-> [v EXCEPT ![idx.lo] = x]]
    ELSE [ok |-> FALSE, val |-> v]

\* _mm_extract_epi16 masking the index with 0b11
extract_epi16_two_bits(v, imm8) ==
    LET e == extract(v, u32_and(as_u32(imm8), u32_lit(3)))
    IN  [ok |-> e.ok, val |-> i16_as_i32(e.val)]

\* _mm_extract_epi16 without the mask
extract_epi16_unmasked(v, imm8) ==
    LET e == extract(v, as_u32(imm8))
    IN  [ok |-> e.ok, val |-> i16_as_i32(e.val)]

_mm_extract_epi16(v, imm8) ==
    LET e == extract(v, u32_and(as_u32(imm8), u32_lit(7)))
    IN  [ok |-> e.ok, val |-> i16_as_i32(e.val)]

\* _mm_insert_epi16 saturating the value to i16 instead of truncating it
insert_epi16_saturating(v, i, imm8) ==
    replace(v, u32_and(as_u32(imm8), u32_lit(7)),
        IF i > 32767 THEN 32767 ELSE IF i < -32768 THEN -32768 ELSE i)

_mm_insert_epi16(v, i, imm8) ==
    replace(v, u32_and(as_u32(imm8), u32_lit(7)), as_i16(i))

---------------------------------------------------------------------------
(* The shuffle specification: a 4-lane or an 8-lane vector is drawn and    *)
(* one shuffle of its type is applied to it.                               *)

\* the i32x4 vectors drawn: ramps, the vector of the tests, the extremes
Vec4Inputs ==
    { [j \in 0 .. 3 |-> s + j * m] : s \in 0 .. MaxSeed, m \in 0 .. MaxStride }
        \cup { [j \in 0 .. 3 |-> 5 * (j + 1)],
               [j \in 0 .. 3 |-> IF j = 0 THEN I32_MIN ELSE IF j = 3 THEN I32_MAX ELSE 0 - j] }

\* the i16x8 vectors drawn: ramps, the two vectors of the tests, the extremes
Vec8Inputs ==
    { [j \in 0 .. 7 |-> s + j * m] : s \in 0 .. MaxSeed, m \in 0 .. MaxStride }
        \cup { [j \in 0 .. 7 |-> IF j < 4 THEN j + 1 ELSE 5 * (j - 3)],
               [j \in 0 .. 7 |-> IF j < 4 THEN 5 * (j + 1) ELSE j - 3],
               [j \in 0 .. 7 |-> as_i16(32764 + j)] }

\* the control values drawn: every byte, the same byte with higher bits
\* set or as a negative i32, and the extremes
ShuffleImms ==
    { c + 256 * k : c \in 0 .. 255, k \in (0 - MaxWrap) .. MaxWrap }
        \cup {I32_MIN, I32_MIN + 23, I32_MAX, I32_MAX - 232, 65536 + 23}

InitShuffle ==
    /\ a \in Vec4Inputs \cup Vec8Inputs
    /\ calls = <<>>

shuffle_epi32 ==
    /\ calls = <<>>
    /\ DOMAIN a = 0 .. 3
    /\ \E c \in ShuffleImms :
        calls' = <<[op |-> "shuffle_epi32", a |-> a, imm8 |-> c,
                    r |-> _mm_shuffle_epi32(a, c)]>>
    /\ UNCHANGED a

shufflehi_epi16 ==
    /\ calls = <<>>
    /\ DOMAIN a = 0 .. 7
    /\ \E c \in ShuffleImms :
        calls' = <<[op |-> "shufflehi_epi16", a |-> a, imm8 |-> c,
                    r |-> _mm_shufflehi_epi16(a, c)]>>
    /\ UNCHANGED a

shufflelo_epi16 ==
    /\ calls = <<>>
    /\ DOMAIN a = 0 .. 7
    /\ \E c \in ShuffleImms :
        calls' = <<[op |-> "shufflelo_epi16", a |-> a, imm8 |-> c,
                    r |-> _mm_shufflelo_epi16(a, c)]>>
    /\ UNCHANGED a

NextShuffle == shuffle_epi32 \/ shufflehi_epi16 \/ shufflelo_epi16

SpecShuffle == InitShuffle /\ [][NextShuffle]_vars

---------------------------------------------------------------------------
(* The byte-shift specification: a 16-byte vector is drawn, then one byte  *)
(* shift is applied to it and a second one to the result of the first.     *)

\* the 16-lane vectors drawn: ramps (the vector 1..16 of the tests among
\* them), and ramps from 121, whose bytes wrap to negative values
Vec16Inputs ==
    { [j \in 0 .. 15 |-> as_i8(s + j * m)] :
        s \in (0 .. MaxSeed) \cup {121}, m \in 0 .. MaxStride }

\* the byte-shift distances drawn
ShiftImms ==
    ((0 - MaxNeg) .. (15 + MaxOver))
        \cup {I32_MIN, I32_MIN + 1, I32_MAX, 256, 65536, 65537, -65536}

\* the vector the next call is applied to
Cur == IF calls = <<>> THEN a ELSE calls[Len(calls)].r

InitShift ==
    /\ a \in Vec16Inputs
    /\ calls = <<>>

slli ==
    /\ Len(calls) < 2
    /\ \E d \in ShiftImms :
        calls' = Append(calls,
            [op |-> "slli", a |-> Cur, imm8 |-> d, r |-> _mm_slli_si128(Cur, d)])
    /\ UNCHANGED a

srli ==
    /\ Len(calls) < 2
    /\ \E d \in ShiftImms :
        calls' = Append(calls,
            [op |-> "srli", a |-> Cur, imm8 |-> d, r |-> _mm_srli_si128(Cur, d)])
    /\ UNCHANGED a

NextShift == slli \/ srli

SpecShift == InitShift /\ [][NextShift]_vars

---------------------------------------------------------------------------
(* The lane specification: an 8-lane vector is drawn; a lane is extracted  *)
(* from it, or a value is inserted into it and a lane of the result is     *)
(* then extracted.                                                         *)

\* the lane selectors drawn
LaneImms ==
    ((0 - MaxNeg) .. (7 + MaxOver))
        \cup {I32_MIN, I32_MIN + 5, I32_MAX, 256 + 5, 65536 + 5, -65536}

\* the values drawn for insertion: the 9 of the test, and values around
\* the ends of the 16-bit and of the 32-bit range
InsertValues ==
    {9, -1, 32767, 32768, -32769, 65535, 65536 + 9, I32_MIN, I32_MAX}

InitLane ==
    /\ a \in Vec8Inputs
    /\ calls = <<>>

extract_epi16 ==
    /\ calls = <<>> \/ (Len(calls) = 1 /\ calls[1].op = "insert_epi16")
    /\ DOMAIN Cur = 0 .. 7
    /\ \E n \in LaneImms :
        LET e == _mm_extract_epi16(Cur, n)
        IN  calls' = Append(calls,
                [op |-> "extract_epi16", a |-> Cur, imm8 |-> n,
                 r |-> e.val, ok |-> e.ok])
    /\ UNCHANGED a

insert_epi16 ==
    /\ calls = <<>>
    /\ DOMAIN a = 0 .. 7
    /\ \E n \in LaneImms, x \in InsertValues :
        LET e == _mm_insert_epi16(a, x, n)
        IN  calls' = <<[op |-> "insert_epi16", a |-> a, i |-> x, imm8 |-> n,
                        r |-> e.val, ok |-> e.ok]>>
    /\ UNCHANGED a

NextLane == extract_epi16 \/ insert_epi16

SpecLane == InitLane /\ [][NextLane]_vars

---------------------------------------------------------------------------
(* The specification of all seven intrinsics that take a selector: a       *)
(* vector of any of the three types is drawn and the intrinsics of its     *)
(* type are applied to it.                                                 *)

InitAll ==
    /\ a \in Vec16Inputs \cup Vec4Inputs \cup Vec8Inputs
    /\ calls = <<>>

NextAll ==
    \/ (DOMAIN a = 0 .. 15 /\ slli)
    \/ (DOMAIN a = 0 .. 15 /\ srli)
    \/ shuffle_epi32
    \/ shufflehi_epi16
    \/ shufflelo_epi16
    \/ extract_epi16
    \/ insert_epi16

SpecAll == InitAll /\ [][NextAll]_vars

---------------------------------------------------------------------------
(* The constructors _mm_set_* and _mm_setr_*.                              *)

\* T::new(e0, ..., eN-1): the vector whose lane j is the argument number j
\* (counted from 0); args is the tuple of the arguments
new(args) == [j \in 0 .. Len(args) - 1 |-> args[j + 1]]

_mm_set_epi64x(e1, e0) == new(<<e0, e1>>)

_mm_set_epi32(e3, e2, e1, e0) == new(<<e0, e1, e2, e3>>)

_mm_set_epi16(e7, e6, e5, e4, e3, e2, e1, e0) ==
    new(<<e0, e1, e2, e3, e4, e5, e6, e7>>)

\* _mm_set_epi8 with e7 and e8 exchanged in the call of i8x16::new
set_epi8_two_exchanged(e15, e14, e13, e12, e11, e10, e9, e8, e7, e6, e5, e4, e3, e2, e1, e0) ==
    new(<<e0, e1, e2, e3, e4, e5, e6, e8, e7, e9, e10, e11, e12, e13, e14, e15>>)

_mm_set_epi8(e15, e14, e13, e12, e11, e10, e9, e8, e7, e6, e5, e4, e3, e2, e1, e0) ==
    new(<<e0, e1, e2, e3, e4, e5, e6, e7, e8, e9, e10, e11, e12, e13, e14, e15>>)

_mm_setr_epi32(e3, e2, e1, e0) == new(<<e3, e2, e1, e0>>)

_mm_setr_epi16(e7, e6, e5, e4, e3, e2, e1, e0) ==
    new(<<e7, e6, e5, e4, e3, e2, e1, e0>>)

_mm_setr_epi8(e15, e14, e13, e12, e11, e10, e9, e8, e7, e6, e5, e4, e3, e2, e1, e0) ==
    new(<<e15, e14, e13, e12, e11, e10, e9, e8, e7, e6, e5, e4, e3, e2, e1, e0>>)

---------------------------------------------------------------------------
(* The constructor specification: a list of 2, 4, 8 or 16 scalar arguments *)
(* is drawn (it is held in `a`, first argument first) and a constructor of *)
(* that many arguments is applied to it.                                   *)

\* the argument lists of length n drawn: ramps (0, 1, 2, ... of the tests
\* among them), the lists with a single 1, and one alternating the ends
\* lo and hi of the scalar type
ArgLists(n, lo, hi) ==
    { [k \in 1 .. n |-> s + (k - 1) * m] :
        s \in 0 .. MaxSeed, m \in 0 .. MaxStride }
        \cup { [k \in 1 .. n |-> IF k = p THEN 1 ELSE 0] : p \in 1 .. n }
        \cup { [k \in 1 .. n |-> IF k % 2 = 1 THEN lo ELSE hi] }

InitSet ==
    /\ a \in ArgLists(2, I32_MIN, I32_MAX) \cup ArgLists(4, I32_MIN, I32_MAX)
            \cup ArgLists(8, -32768, 32767) \cup ArgLists(16, -128, 127)
    /\ calls = <<>>

set_epi64x ==
    /\ calls = <<>>
    /\ Len(a) = 2
    /\ calls' = <<[op |-> "set_epi64x", args |-> a,
                   r |-> _mm_set_epi64x(a[1], a[2])]>>
    /\ UNCHANGED a

set_epi32 ==
    /\ calls = <<>>
    /\ Len(a) = 4
    /\ calls' = <<[op |-> "set_epi32", args |-> a,
                   r |-> _mm_set_epi32(a[1], a[2], a[3], a[4])]>>
    /\ UNCHANGED a

set_epi16 ==
    /\ calls = <<>>
    /\ Len(a) = 8
    /\ calls' = <<[op |-> "set_epi16", args |-> a,
                   r |-> _mm_set_epi16(a[1], a[2], a[3], a[4],
                                       a[5], a[6], a[7], a[8])]>>
    /\ UNCHANGED a

set_epi8 ==
    /\ calls = <<>>
    /\ Len(a) = 16
    /\ calls' = <<[op |-> "set_epi8", args |-> a,
                   r |-> _mm_set_epi8(a[1], a[2], a[3], a[4],
                                      a[5], a[6], a[7], a[8],
                                      a[9], a[10], a[11], a[12],
                                      a[13], a[14], a[15], a[16])]>>
    /\ UNCHANGED a

setr_epi32 ==
    /\ calls = <<>>
    /\ Len(a) = 4
    /\ calls' = <<[op |-> "setr_epi32", args |-> a,
                   r |-> _mm_setr_epi32(a[1], a[2], a[3], a[4])]>>
    /\ UNCHANGED a

setr_epi16 ==
    /\ calls = <<>>
    /\ Len(a) = 8
    /\ calls' = <<[op |-> "setr_epi16", args |-> a,
                   r |-> _mm_setr_epi16(a[1], a[2], a[3], a[4],
                                        a[5], a[6], a[7], a[8])]>>
    /\ UNCHANGED a

setr_epi8 ==
    /\ calls = <<>>
    /\ Len(a) = 16
    /\ calls' = <<[op |-> "setr_epi8", args |-> a,
                   r |-> _mm_setr_epi8(a[1], a[2], a[3], a[4],
                                       a[5], a[6], a[7], a[8],
                                       a[9], a[10], a[11], a[12],
                                       a[13], a[14], a[15], a[16])]>>
    /\ UNCHANGED a

NextSet ==
    \/ set_epi64x \/ set_epi32 \/ set_epi16 \/ set_epi8
    \/ setr_epi32 \/ setr_epi16 \/ setr_epi8

SpecSet == InitSet /\ [][NextSet]_vars

---------------------------------------------------------------------------
(* The unpack intrinsics.                                                  *)

simd_shuffle2(x, y, idx) == simd_shuffle(2, x, y, idx)

_mm_unpackhi_epi8(x, y) ==
    simd_shuffle16(x, y, << 8, 24, 9, 25, 10, 26, 11, 27,
                            12, 28, 13, 29, 14, 30, 15, 31 >>)

\* _mm_unpackhi_epi16 with the index array of _mm_unpacklo_epi16
unpackhi_epi16_low_half(x, y) ==
    simd_shuffle8(x, y, << 0, 8, 1, 9, 2, 10, 3, 11 >>)

_mm_unpackhi_epi16(x, y) ==
    simd_shuffle8(x, y, << 4, 12, 5, 13, 6, 14, 7, 15 >>)

_mm_unpackhi_epi32(x, y) == simd_shuffle4(x, y, << 2, 6, 3, 7 >>)

_mm_unpackhi_epi64(x, y) == simd_shuffle2(x, y, << 1, 3 >>)

_mm_unpacklo_epi8(x, y) ==
    simd_shuffle16(x, y, << 0, 16, 1, 17, 2, 18, 3, 19,
                            4, 20, 5, 21, 6, 22, 7, 23 >>)

_mm_unpacklo_epi16(x, y) ==
    simd_shuffle8(x, y, << 0, 8, 1, 9, 2, 10, 3, 11 >>)

_mm_unpacklo_epi32(x, y) == simd_shuffle4(x, y, << 0, 4, 1, 5 >>)

_mm_unpacklo_epi64(x, y) == simd_shuffle2(x, y, << 0, 2 >>)

---------------------------------------------------------------------------
(* The unpack specification: a vector of 16, 8, 4 or 2 lanes is drawn; an  *)
(* unpack of its type is applied to it and to a second vector of the same  *)
(* type, drawn at the call.                                                *)

\* the i64x2 vectors drawn: ramps and one of distant values
Vec2Inputs ==
    { [j \in 0 .. 1 |-> s + j * m] : s \in 0 .. MaxSeed, m \in 0 .. MaxStride }
        \cup { [j \in 0 .. 1 |-> IF j = 0 THEN I32_MIN ELSE I32_MAX] }

\* the number of lanes of the vector v
Lanes(v) == Cardinality(DOMAIN v)

\* the second operands drawn for the first operand v: the vectors of its
\* type, and the ramp that starts at the number of lanes (the second
\* operand of the tests)
SecondOperands(v) ==
    { w \in Vec16Inputs \cup Vec8Inputs \cup Vec4Inputs \cup Vec2Inputs :
        DOMAIN w = DOMAIN v }
        \cup { [j \in DOMAIN v |-> Lanes(v) + j] }

InitUnpack ==
    /\ a \in Vec16Inputs \cup Vec8Inputs \cup Vec4Inputs \cup Vec2Inputs
    /\ calls = <<>>

unpackhi_epi8 ==
    /\ calls = <<>>
    /\ Lanes(a) = 16
    /\ \E b \in SecondOperands(a) :
        calls' = <<[op |-> "unpackhi", a |-> a, b |-> b,
                    r |-> _mm_unpackhi_epi8(a, b)]>>
    /\ UNCHANGED a

unpackhi_epi16 ==
    /\ calls = <<>>
    /\ Lanes(a) = 8
    /\ \E b \in SecondOperands(a) :
        calls' = <<[op |-> "unpackhi", a |-> a, b |-> b,
                    r |-> _mm_unpackhi_epi16(a, b)]>>
    /\ UNCHANGED a

unpackhi_epi32 ==
    /\ calls = <<>>
    /\ Lanes(a) = 4
    /\ \E b \in SecondOperands(a) :
        calls' = <<[op |-> "unpackhi", a |-> a, b |-> b,
                    r |-> _mm_unpackhi_epi32(a, b)]>>
    /\ UNCHANGED a

unpackhi_epi64 ==
    /\ calls = <<>>
    /\ Lanes(a) = 2
    /\ \E b \in SecondOperands(a) :
        calls' = <<[op |-> "unpackhi", a |-> a, b |-> b,
                    r |-> _mm_unpackhi_epi64(a, b)]>>
    /\ UNCHANGED a

unpacklo_epi8 ==
    /\ calls = <<>>
    /\ Lanes(a) = 16
    /\ \E b \in SecondOperands(a) :
        calls' = <<[op |-> "unpacklo", a |-> a, b |-> b,
                    r |-> _mm_unpacklo_epi8(a, b)]>>
    /\ UNCHANGED a

unpacklo_epi16 ==
    /\ calls = <<>>
    /\ Lanes(a) = 8
    /\ \E b \in SecondOperands(a) :
        calls' = <<[op |-> "unpacklo", a |-> a, b |-> b,
                    r |-> _mm_unpacklo_epi16(a, b)]>>
    /\ UNCHANGED a

unpacklo_epi32 ==
    /\ calls = <<>>
    /\ Lanes(a) = 4
    /\ \E b \in SecondOperands(a) :
        calls' = <<[op |-> "unpacklo", a |-> a, b |-> b,
                    r |-> _mm_unpacklo_epi32(a, b)]>>
    /\ UNCHANGED a

unpacklo_epi64 ==
    /\ calls = <<>>
    /\ Lanes(a) = 2
    /\ \E b \in SecondOperands(a) :
        calls' = <<[op |-> "unpacklo", a |-> a, b |-> b,
                    r |-> _mm_unpacklo_epi64(a, b)]>>
    /\ UNCHANGED a

NextUnpack ==
    \/ unpackhi_epi8 \/ unpackhi_epi16 \/ unpackhi_epi32 \/ unpackhi_epi64
    \/ unpacklo_epi8 \/ unpacklo_epi16 \/ unpacklo_epi32 \/ unpacklo_epi64

SpecUnpack == InitUnpack /\ [][NextUnpack]_vars

---------------------------------------------------------------------------
(* The composition specification: a 4-lane vector of distinct lanes is     *)
(* drawn, _mm_shuffle_epi32 is applied to it and then once more to the     *)
(* result, each time with any control byte.                                *)

\* the i32x4 vectors drawn: those of Vec4Inputs whose lanes are all distinct
DistinctVec4Inputs ==
    { v \in Vec4Inputs : \A i, j \in 0 .. 3 : i # j => v[i] # v[j] }

InitCompose ==
    /\ a \in DistinctVec4Inputs
    /\ calls = <<>>

shuffle_epi32_chained ==
    /\ Len(calls) < 2
    /\ \E c \in 0 .. 255 :
        calls' = Append(calls,
            [op |-> "shuffle_epi32", a |-> Cur, imm8 |-> c,
             r |-> _mm_shuffle_epi32(Cur, c)])
    /\ UNCHANGED a

NextCompose == shuffle_epi32_chained

SpecCompose == InitCompose /\ [][NextCompose]_vars

---------------------------------------------------------------------------
(* The concurrent specification: up to MaxThreads threads call the byte    *)
(* shifts and the shuffles on the vector drawn, each with its own          *)
(* selector.  A call takes two steps, which interleave with the steps of   *)
(* the other calls: it binds its local `imm8` (the cast, or the mask and   *)
(* the cast, of its argument), then it runs the match on that local and    *)
(* returns.  `calls` holds the calls in the order in which they bound      *)
(* their local; a call in flight has pc = "bound" and no result yet.       *)

\* the threads that may be inside a call at the same time
MaxThreads == 2

\* the selectors the threads draw
ThreadImms == {I32_MIN + 27, -1, 0, 1, 15, 228}

\* the intrinsics of the type of the vector v
OpsOf(v) ==
    CASE DOMAIN v = 0 .. 15 -> {"slli", "srli"}
      [] DOMAIN v = 0 .. 3 -> {"shuffle_epi32"}
      [] DOMAIN v = 0 .. 7 -> {"shufflehi_epi16", "shufflelo_epi16"}

\* the first statement of the intrinsic op: the local `imm8`
BindLocal(op, imm8) ==
    IF op \in {"slli", "srli"}
    THEN as_u32(imm8)
    ELSE as_u8(i32_and(imm8, 255))

\* the rest of the intrinsic op: the match on the local and the primitive
RunMatch(op, v, sel) ==
    CASE op = "slli" -> slli_match(v, sel)
      [] op = "srli" -> srli_match(v, sel)
      [] op = "shuffle_epi32" -> shuffle_epi32_x01(v, sel)
      [] op = "shufflehi_epi16" -> shufflehi_epi16_x01(v, sel)
      [] op = "shufflelo_epi16" -> shufflelo_epi16_x01(v, sel)

\* the local `imm8` kept in one place shared by all the calls (a static):
\* the match reads what the call that bound last wrote
selector_shared(k) == calls[Len(calls)].sel

\* the local `imm8` the match of call k reads: the call's own
selector_local(k) == calls[k].sel

InitThreads ==
    /\ a \in Vec16Inputs \cup Vec4Inputs \cup Vec8Inputs
    /\ calls = <<>>

\* a thread enters an intrinsic and binds its local
Bind(op) ==
    /\ Len(calls) < MaxThreads
    /\ op \in OpsOf(a)
    /\ \E n \in ThreadImms :
        calls' = Append(calls,
            [op |-> op, a |-> a, imm8 |-> n, sel |-> BindLocal(op, n),
             pc |-> "bound"])
    /\ UNCHANGED a

\* a call in flight runs its match and returns
Return(op) ==
    /\ \E k \in 1 .. Len(calls) :
        /\ calls[k].op = op
        /\ calls[k].pc = "bound"
        /\ calls' = [calls EXCEPT ![k] =
                [op |-> op, a |-> calls[k].a, imm8 |-> calls[k].imm8,
                 sel |-> calls[k].sel, pc |-> "done",
                 r |-> RunMatch(op, calls[k].a, selector_local(k))]]
    /\ UNCHANGED a

NextThreads ==
    \/ Bind("slli") \/ Return("slli")
    \/ Bind("srli") \/ Return("srli")
    \/ Bind("shuffle_epi32") \/ Return("shuffle_epi32")
    \/ Bind("shufflehi_epi16") \/ Return("shufflehi_epi16")
    \/ Bind("shufflelo_epi16") \/ Return("shufflelo_epi16")

SpecThreads == InitThreads /\ [][NextThreads]_vars

---------------------------------------------------------------------------
(* The dispatch specification: one call of a shuffle or of a byte shift,   *)
(* taken one match at a time.  A shuffle binds its local `imm8`, then runs *)
(* the outer match and the matches of shuffle_x23!, shuffle_x45! and       *)
(* shuffle_x67!, each arm passing one more literal down, and at last       *)
(* shuffle_done!, which calls the primitive.  A byte shift binds its local *)
(* `imm8`, runs its match, whose arm passes one literal to shuffle!, and   *)
(* shuffle! calls the primitive.  The frame of the call, the one element   *)
(* of `calls`, holds the literals chosen so far (sel), the shifts of the   *)
(* fields examined so far (bits), the number of calls of the primitive     *)
(* (invoked), the number of literals it was called with (resolved) and     *)
(* the index array it was called with (idx).                               *)

\* the control values drawn: every byte, and some values beyond a byte
TreeImms == (0 .. 255) \cup {-1, -28, 256 + 228, I32_MIN + 27, I32_MAX}

\* tree_shift with the fields of shuffle_x23! and shuffle_x45! exchanged
tree_shift_exchanged(pc) ==
    CASE pc = "x01" -> 0
      [] pc = "x23" -> 4
      [] pc = "x45" -> 2
      [] pc = "x67" -> 6

\* match_arm with a mistyped last arm, `_ => 2`
match_arm_mistyped(f) ==
    CASE f = 0 -> 0
      [] f = 1 -> 1
      [] OTHER -> 2

\* the literal passed down by the arm a 2-bit field f takes:
\* 0b00 => 0, 0b01 => 1, 0b10 => 2, _ => 3
match_arm(f) ==
    CASE f = 0 -> 0
      [] f = 1 -> 1
      [] f = 2 -> 2
      [] OTHER -> 3

\* the shift of the field that the match at pc examines: `imm8 & 0b11` in
\* the function body, `(imm8 >> 2) & 0b11` in shuffle_x23!, `(imm8 >> 4) &
\* 0b11` in shuffle_x45!, `(imm8 >> 6) & 0b11` in shuffle_x67!
tree_shift(pc) ==
    CASE pc = "x01" -> 0
      [] pc = "x23" -> 2
      [] pc = "x45" -> 4
      [] pc = "x67" -> 6

\* the macro that the arms of the match at pc expand to
tree_next(pc) ==
    CASE pc = "x01" -> "x23"
      [] pc = "x23" -> "x45"
      [] pc = "x45" -> "x67"
      [] pc = "x67" -> "done"

\* shuffle_done! of the intrinsic op with the literals s
tree_done(op, v, s) ==
    CASE op = "shuffle_epi32" -> shuffle_epi32_done(v, s[1], s[2], s[3], s[4])
      [] op = "shufflehi_epi16" -> shufflehi_epi16_done(v, s[1], s[2], s[3], s[4])
      [] op = "shufflelo_epi16" -> shufflelo_epi16_done(v, s[1], s[2], s[3], s[4])

\* the index array of shuffle_done! of the intrinsic op with the literals s
tree_indices(op, s) ==
    CASE op = "shuffle_epi32" -> shuffle_epi32_done_indices(s[1], s[2], s[3], s[4])
      [] op = "shufflehi_epi16" -> shufflehi_epi16_done_indices(s[1], s[2], s[3], s[4])
      [] op = "shufflelo_epi16" -> shufflelo_epi16_done_indices(s[1], s[2], s[3], s[4])

InitTree ==
    /\ a \in Vec4Inputs \cup Vec8Inputs \cup Vec16Inputs
    /\ calls = <<>>

\* the call enters the intrinsic op: let imm8 = (imm8 & 0xFF) as u8
TreeEnter(op) ==
    /\ calls = <<>>
    /\ op \in {"shuffle_epi32", "shufflehi_epi16", "shufflelo_epi16"}
    /\ op \in OpsOf(a)
    /\ \E n \in TreeImms :
        calls' = <<[op |-> op, a |-> a, imm8 |-> n,
                    c |-> as_u8(i32_and(n, 255)), pc |-> "x01",
                    sel |-> <<>>, bits |-> <<>>, invoked |-> 0,
                    resolved |-> 0, idx |-> <<>>, r |-> <<>>]>>
    /\ UNCHANGED a

\* the match at pc examines its field and takes an arm
TreeDecide(pc) ==
    /\ Len(calls) = 1
    /\ calls[1].pc = pc
    /\ pc \in {"x01", "x23", "x45", "x67"}
    /\ calls' = <<[calls[1] EXCEPT
            !.sel = Append(@, match_arm(BitAnd(shr(calls[1].c, tree_shift(pc)), 3))),
            !.bits = Append(@, tree_shift(pc)),
            !.pc = tree_next(pc)]>>
    /\ UNCHANGED a

\* shuffle_done! calls the primitive and the intrinsic returns
TreeDone ==
    /\ Len(calls) = 1
    /\ calls[1].pc = "done"
    /\ calls' = <<[calls[1] EXCEPT
            !.r = tree_done(calls[1].op, calls[1].a, calls[1].sel),
            !.invoked = @ + 1,
            !.resolved = Len(calls[1].sel),
            !.idx = tree_indices(calls[1].op, calls[1].sel),
            !.pc = "returned"]>>
    /\ UNCHANGED a

\* the call enters the byte shift op:
\* let (zero, imm8) = (__m128i::splat(0), imm8 as u32)
ShiftEnter(op) ==
    /\ calls = <<>>
    /\ op \in {"slli", "srli"}
    /\ op \in OpsOf(a)
    /\ \E n \in ShiftImms :
        calls' = <<[op |-> op, a |-> a, imm8 |-> n,
                    c |-> as_u32(n), pc |-> "match",
                    sel |-> <<>>, bits |-> <<>>, invoked |-> 0,
                    resolved |-> 0, idx |-> <<>>, r |-> <<>>]>>
    /\ UNCHANGED a

\* the match of the byte shift takes an arm
ShiftArm ==
    /\ Len(calls) = 1
    /\ calls[1].pc = "match"
    /\ calls' = <<[calls[1] EXCEPT
            !.sel = <<IF calls[1].op = "slli"
                      THEN slli_arm(calls[1].c) ELSE srli_arm(calls[1].c)>>,
            !.pc = "shuffle"]>>
    /\ UNCHANGED a

\* shuffle! calls the primitive and the byte shift returns
ShiftShuffle ==
    /\ Len(calls) = 1
    /\ calls[1].pc = "shuffle"
    /\ calls' = <<[calls[1] EXCEPT
            !.r = IF calls[1].op = "slli"
                  THEN slli_shuffle(calls[1].a, calls[1].sel[1])
                  ELSE srli_shuffle(calls[1].a, calls[1].sel[1]),
            !.idx = IF calls[1].op = "slli"
                    THEN slli_indices(calls[1].sel[1])
                    ELSE srli_indices(calls[1].sel[1]),
            !.invoked = @ + 1,
            !.resolved = 1,
            !.pc = "returned"]>>
    /\ UNCHANGED a

NextTree ==
    \/ TreeEnter("shuffle_epi32")
    \/ TreeEnter("shufflehi_epi16")
    \/ TreeEnter("shufflelo_epi16")
    \/ TreeDecide("x01") \/ TreeDecide("x23")
    \/ TreeDecide("x45") \/ TreeDecide("x67")
    \/ TreeDone
    \/ ShiftEnter("slli") \/ ShiftEnter("srli")
    \/ ShiftArm
    \/ ShiftShuffle

SpecTree == InitTree /\ [][NextTree]_vars

---------------------------------------------------------------------------
(* The properties.                                                         *)

\* the calls of the log made with the intrinsic `op`
CallsOf(op) == { k \in 1 .. Len(calls) : calls[k].op = op }

\* the 2-bit field i of a control value: (c >> 2i) & 3
Field(c, i) == (c \div (4 ^ i)) % 4

\* the vector 1, 2, ..., 16 of the byte-shift tests
OneToSixteen == [j \in 0 .. 15 |-> j + 1]

\* the intrinsic named op, applied
Apply(op, v, imm8) ==
    CASE op = "shuffle_epi32" -> _mm_shuffle_epi32(v, imm8)
      [] op = "shufflehi_epi16" -> _mm_shufflehi_epi16(v, imm8)
      [] op = "shufflelo_epi16" -> _mm_shufflelo_epi16(v, imm8)

\* C1: _mm_slli_si128(a, d) with d in 0..15 has lane i = 0 for i < d and
\* lane i = a[i - d] for d <= i <= 15; the vector 1..16 shifted by 1 is
\* 0, 1, ..., 15.
C1_LeftShiftLanes ==
    \A k \in CallsOf("slli") :
        LET c == calls[k]
        IN  c.imm8 \in 0 .. 15 =>
                /\ DOMAIN c.r = 0 .. 15
                /\ \A i \in 0 .. 15 :
                    c.r[i] = IF i < c.imm8 THEN 0 ELSE c.a[i - c.imm8]
                /\ (c.a = OneToSixteen /\ c.imm8 = 1) =>
                        c.r = [j \in 0 .. 15 |-> j]

C1_Witness ==
    /\ Len(calls) = 1
    /\ calls[1].op = "slli"
    /\ calls[1].a = OneToSixteen
    /\ calls[1].imm8 = 1
    /\ calls[1].r = [j \in 0 .. 15 |-> j]

\* C2: _mm_srli_si128(a, d) with d in 0..15 has lane i = a[i + d] for
\* i + d <= 15 and lane i = 0 for i + d > 15.
C2_RightShiftLanes ==
    \A k \in CallsOf("srli") :
        LET c == calls[k]
        IN  c.imm8 \in 0 .. 15 =>
                /\ DOMAIN c.r = 0 .. 15
                /\ \A i \in 0 .. 15 :
                    c.r[i] = IF i + c.imm8 <= 15 THEN c.a[i + c.imm8] ELSE 0

C2_Witness ==
    /\ Len(calls) = 1
    /\ calls[1].op = "srli"
    /\ calls[1].a = OneToSixteen
    /\ calls[1].imm8 = 1
    /\ calls[1].r = [j \in 0 .. 15 |-> IF j = 15 THEN 0 ELSE j + 2]

\* C3: for every distance d >= 16 or d < 0, the most negative i32 among
\* them, _mm_slli_si128(a, d) and _mm_srli_si128(a, d) are the all-zero
\* vector.
C3_OutOfRangeIsZero ==
    \A k \in CallsOf("slli") \cup CallsOf("srli") :
        LET c == calls[k]
        IN  (c.imm8 >= 16 \/ c.imm8 < 0) =>
                c.r = [j \in 0 .. 15 |-> 0]

C3_Witness ==
    /\ Len(calls) = 1
    /\ calls[1].op = "slli"
    /\ calls[1].a = OneToSixteen
    /\ calls[1].imm8 = I32_MIN
    /\ calls[1].r = [j \in 0 .. 15 |-> 0]

\* C4, as stated: for d in 0..15, _mm_srli_si128(_mm_slli_si128(a, d), d)
\* has lane i = a[i] for d <= i <= 15 and lane i = 0 for i < d.
C4_AsStated ==
    (/\ Len(calls) = 2
     /\ calls[1].op = "slli"
     /\ calls[2].op = "srli"
     /\ calls[1].imm8 = calls[2].imm8
     /\ calls[1].imm8 \in 0 .. 15) =>
        \A i \in 0 .. 15 :
            calls[2].r[i] = IF i >= calls[1].imm8 THEN calls[1].a[i] ELSE 0

\* C4, amended: for d in 0..15, _mm_srli_si128(_mm_slli_si128(a, d), d)
\* keeps the LOW 16 - d bytes of a in place and zeroes the high d bytes:
\* lane i = a[i] for i <= 15 - d and lane i = 0 for i > 15 - d.
C4_LeftThenRight ==
    (/\ Len(calls) = 2
     /\ calls[1].op = "slli"
     /\ calls[2].op = "srli"
     /\ calls[1].imm8 = calls[2].imm8
     /\ calls[1].imm8 \in 0 .. 15) =>
        /\ calls[2].a = calls[1].r
        /\ \A i \in 0 .. 15 :
            calls[2].r[i] =
                IF i <= 15 - calls[1].imm8 THEN calls[1].a[i] ELSE 0

C4_Witness ==
    /\ Len(calls) = 2
    /\ calls[1].op = "slli"
    /\ calls[2].op = "srli"
    /\ calls[1].a = OneToSixteen
    /\ calls[1].imm8 = 15
    /\ calls[2].imm8 = 15
    /\ calls[1].r = [j \in 0 .. 15 |-> IF j = 15 THEN 1 ELSE 0]
    /\ calls[2].r = [j \in 0 .. 15 |-> IF j = 0 THEN 1 ELSE 0]

\* C5, as stated: for d in 0..15, _mm_slli_si128(_mm_srli_si128(a, d), d)
\* has lane i = a[i] for i <= 15 - d and lane i = 0 for i > 15 - d.
C5_AsStated ==
    (/\ Len(calls) = 2
     /\ calls[1].op = "srli"
     /\ calls[2].op = "slli"
     /\ calls[1].imm8 = calls[2].imm8
     /\ calls[1].imm8 \in 0 .. 15) =>
        \A i \in 0 .. 15 :
            calls[2].r[i] =
                IF i <= 15 - calls[1].imm8 THEN calls[1].a[i] ELSE 0

\* C5, amended: for d in 0..15, _mm_slli_si128(_mm_srli_si128(a, d), d)
\* keeps the HIGH 16 - d bytes of a in place and zeroes the low d bytes:
\* lane i = a[i] for d <= i <= 15 and lane i = 0 for i < d.
C5_RightThenLeft ==
    (/\ Len(calls) = 2
     /\ calls[1].op = "srli"
     /\ calls[2].op = "slli"
     /\ calls[1].imm8 = calls[2].imm8
     /\ calls[1].imm8 \in 0 .. 15) =>
        /\ calls[2].a = calls[1].r
        /\ \A i \in 0 .. 15 :
            calls[2].r[i] = IF i >= calls[1].imm8 THEN calls[1].a[i] ELSE 0

C5_Witness ==
    /\ Len(calls) = 2
    /\ calls[1].op = "srli"
    /\ calls[2].op = "slli"
    /\ calls[1].a = OneToSixteen
    /\ calls[1].imm8 = 7
    /\ calls[2].imm8 = 7
    /\ calls[1].r = [j \in 0 .. 15 |-> IF j <= 8 THEN j + 8 ELSE 0]
    /\ calls[2].r = [j \in 0 .. 15 |-> IF j >= 7 THEN j + 1 ELSE 0]

\* C6: lane i of _mm_shuffle_epi32(a, imm8) is a[(imm8 >> 2i) & 3] for
\* i in 0..3; control 0b00_01_01_11 on (5, 10, 15, 20) gives
\* (20, 10, 10, 5).
C6_ShuffleLanes ==
    \A k \in CallsOf("shuffle_epi32") :
        LET c == calls[k]
        IN  /\ DOMAIN c.r = 0 .. 3
            /\ \A i \in 0 .. 3 : c.r[i] = c.a[Field(c.imm8, i)]
            /\ (c.a = [j \in 0 .. 3 |-> 5 * (j + 1)] /\ c.imm8 = 23) =>
                    c.r = [j \in 0 .. 3 |->
                            IF j = 0 THEN 20 ELSE IF j = 3 THEN 5 ELSE 10]

C6_Witness ==
    /\ Len(calls) = 1
    /\ calls[1].op = "shuffle_epi32"
    /\ calls[1].a = [j \in 0 .. 3 |-> 5 * (j + 1)]
    /\ calls[1].imm8 = 23
    /\ calls[1].r[0] = 20 /\ calls[1].r[1] = 10
    /\ calls[1].r[2] = 10 /\ calls[1].r[3] = 5

\* C7: the three shuffles depend on the low 8 bits of the control value
\* only: control values equal modulo 256, negative ones among them, give
\* equal results.
C7_LowByteOnly ==
    \A k \in 1 .. Len(calls) :
        LET c == calls[k]
        IN  c.op \in {"shuffle_epi32", "shufflehi_epi16", "shufflelo_epi16"} =>
                \A c2 \in ShuffleImms :
                    c2 % 256 = c.imm8 % 256 => Apply(c.op, c.a, c2) = c.r

C7_Witness ==
    /\ Len(calls) = 1
    /\ calls[1].op = "shuffle_epi32"
    /\ calls[1].a = [j \in 0 .. 3 |-> 5 * (j + 1)]
    /\ calls[1].imm8 = 23 - 256
    /\ calls[1].r = _mm_shuffle_epi32(calls[1].a, 23 + 256)
    /\ calls[1].r[0] = 20 /\ calls[1].r[3] = 5

\* C8: for every control byte c in 0..255, every lane of
\* _mm_shuffle_epi32(a, c), _mm_shufflehi_epi16(a, c) and
\* _mm_shufflelo_epi16(a, c) is the value of some lane of a.
C8_NoFabricatedValue ==
    \A k \in 1 .. Len(calls) :
        LET c == calls[k]
        IN  (/\ c.op \in {"shuffle_epi32", "shufflehi_epi16", "shufflelo_epi16"}
             /\ c.imm8 \in 0 .. 255) =>
                /\ DOMAIN c.r = DOMAIN c.a
                /\ \A j \in DOMAIN c.r : \E i \in DOMAIN c.a : c.r[j] = c.a[i]

C8_Witness ==
    /\ Len(calls) = 1
    /\ calls[1].op = "shufflelo_epi16"
    /\ calls[1].a = [j \in 0 .. 7 |-> j + 1]
    /\ calls[1].imm8 = 255
    /\ calls[1].r = [j \in 0 .. 7 |-> IF j < 4 THEN 4 ELSE j + 1]

\* C9: for every control byte c in 0..255, lanes 0..3 of
\* _mm_shufflehi_epi16(a, c) are lanes 0..3 of a, and lanes 4..7 of
\* _mm_shufflelo_epi16(a, c) are lanes 4..7 of a.
C9_OtherHalfUnchanged ==
    /\ \A k \in CallsOf("shufflehi_epi16") :
        LET c == calls[k]
        IN  c.imm8 \in 0 .. 255 => \A i \in 0 .. 3 : c.r[i] = c.a[i]
    /\ \A k \in CallsOf("shufflelo_epi16") :
        LET c == calls[k]
        IN  c.imm8 \in 0 .. 255 => \A i \in 4 .. 7 : c.r[i] = c.a[i]

C9_Witness ==
    /\ Len(calls) = 1
    /\ calls[1].op = "shufflehi_epi16"
    /\ calls[1].a = [j \in 0 .. 7 |-> j + 1]
    /\ calls[1].imm8 = 27
    /\ calls[1].r = [j \in 0 .. 7 |-> IF j < 4 THEN j + 1 ELSE 12 - j]

\* C10: lane 4 + i of _mm_shufflehi_epi16(a, imm8) is
\* a[4 + ((imm8 >> 2i) & 3)] for i in 0..3, for every control value.
C10_HighHalfFromHighHalf ==
    \A k \in CallsOf("shufflehi_epi16") :
        LET c == calls[k]
        IN  \A i \in 0 .. 3 : c.r[4 + i] = c.a[4 + Field(c.imm8, i)]

C10_Witness ==
    /\ Len(calls) = 1
    /\ calls[1].op = "shufflehi_epi16"
    /\ calls[1].a = [j \in 0 .. 7 |-> IF j < 4 THEN j + 1 ELSE 5 * (j - 3)]
    /\ calls[1].imm8 = 23
    /\ calls[1].r[4] = 20 /\ calls[1].r[5] = 10
    /\ calls[1].r[6] = 10 /\ calls[1].r[7] = 5

\* C11: lane i of _mm_shufflelo_epi16(a, imm8) is a[(imm8 >> 2i) & 3] for
\* i in 0..3, for every control value: the low half of the result is
\* taken from the low half of a only.
C11_LowHalfFromLowHalf ==
    \A k \in CallsOf("shufflelo_epi16") :
        LET c == calls[k]
        IN  \A i \in 0 .. 3 : c.r[i] = c.a[Field(c.imm8, i)]

C11_Witness ==
    /\ Len(calls) = 1
    /\ calls[1].op = "shufflelo_epi16"
    /\ calls[1].a = [j \in 0 .. 7 |-> IF j < 4 THEN 5 * (j + 1) ELSE j - 3]
    /\ calls[1].imm8 = 23
    /\ calls[1].r[0] = 20 /\ calls[1].r[1] = 10
    /\ calls[1].r[2] = 10 /\ calls[1].r[3] = 5

\* C12: the identity control byte 0b11_10_01_00 = 228 (fields 0, 1, 2, 3
\* for destination lanes 0, 1, 2, 3) leaves the vector unchanged, for
\* _mm_shuffle_epi32, _mm_shufflehi_epi16 and _mm_shufflelo_epi16.
C12_IdentityControl ==
    \A k \in 1 .. Len(calls) :
        LET c == calls[k]
        IN  (/\ c.op \in {"shuffle_epi32", "shufflehi_epi16", "shufflelo_epi16"}
             /\ c.imm8 = 228) =>
                c.r = c.a

C12_Witness ==
    /\ Len(calls) = 1
    /\ calls[1].op = "shuffle_epi32"
    /\ calls[1].a = [j \in 0 .. 3 |-> 5 * (j + 1)]
    /\ calls[1].imm8 = 228
    /\ calls[1].r = [j \in 0 .. 3 |-> 5 * (j + 1)]

\* C13: a broadcast control byte, all four fields equal to k (the byte
\* 85 * k, k in 0..3), makes every lane of _mm_shuffle_epi32(a, 85 * k)
\* equal to a[k].
C13_BroadcastControl ==
    \A k \in CallsOf("shuffle_epi32") :
        LET c == calls[k]
        IN  \A n \in 0 .. 3 :
                c.imm8 = 85 * n => c.r = [j \in 0 .. 3 |-> c.a[n]]

C13_Witness ==
    /\ Len(calls) = 1
    /\ calls[1].op = "shuffle_epi32"
    /\ calls[1].a = [j \in 0 .. 3 |-> 5 * (j + 1)]
    /\ calls[1].imm8 = 170
    /\ calls[1].r = [j \in 0 .. 3 |-> 15]

\* C16: _mm_extract_epi16(a, imm8) returns lane (imm8 mod 8) of a for
\* every i32 imm8, negative or >= 8 included, and never indexes outside
\* lanes 0..7.
C16_ExtractMasked ==
    \A k \in CallsOf("extract_epi16") :
        LET c == calls[k]
        IN  /\ c.ok
            /\ c.r = c.a[c.imm8 % 8]

C16_Witness ==
    /\ Len(calls) = 1
    /\ calls[1].op = "extract_epi16"
    /\ calls[1].a = [j \in 0 .. 7 |-> j]
    /\ calls[1].imm8 = I32_MIN + 5
    /\ calls[1].ok
    /\ calls[1].r = 5

\* the low 16 bits of x, read as a signed 16-bit integer
Low16(x) ==
    IF (x % 65536) < 32768 THEN (x % 65536) ELSE (x % 65536) - 65536

\* C17: _mm_insert_epi16(a, i, imm8) is a except that lane (imm8 mod 8)
\* holds the low 16 bits of i; the seven other lanes are unchanged, for
\* every i32 i and every i32 imm8.
C17_InsertOneLane ==
    \A k \in CallsOf("insert_epi16") :
        LET c == calls[k]
        IN  /\ c.ok
            /\ DOMAIN c.r = 0 .. 7
            /\ c.r[c.imm8 % 8] = Low16(c.i)
            /\ \A j \in 0 .. 7 : j # c.imm8 % 8 => c.r[j] = c.a[j]

C17_Witness ==
    /\ Len(calls) = 1
    /\ calls[1].op = "insert_epi16"
    /\ calls[1].a = [j \in 0 .. 7 |-> j]
    /\ calls[1].i = 65536 + 9
    /\ calls[1].imm8 = -1
    /\ calls[1].r = [j \in 0 .. 7 |-> IF j = 7 THEN 9 ELSE j]

\* v is an n-lane vector whose lanes lie in lo..hi
IsVector(v, n, lo, hi) ==
    /\ DOMAIN v = 0 .. n - 1
    /\ \A j \in 0 .. n - 1 : v[j] \in lo .. hi

\* C14: every selector is total: for every i32 selector and every input
\* vector, each of the seven intrinsics returns a value of its documented
\* type (__m128i for the byte shifts, i32x4 for _mm_shuffle_epi32, i16x8
\* for the half shuffles and _mm_insert_epi16, an i32 holding an i16 for
\* _mm_extract_epi16) and no call panics.
C14_Total ==
    \A k \in 1 .. Len(calls) :
        LET c == calls[k]
        IN  /\ c.imm8 \in I32_MIN .. I32_MAX
            /\ c.op \in {"slli", "srli"} => IsVector(c.r, 16, -128, 127)
            /\ c.op = "shuffle_epi32" => IsVector(c.r, 4, I32_MIN, I32_MAX)
            /\ c.op \in {"shufflehi_epi16", "shufflelo_epi16"} =>
                    IsVector(c.r, 8, -32768, 32767)
            /\ c.op = "extract_epi16" => c.ok /\ c.r \in -32768 .. 32767
            /\ c.op = "insert_epi16" =>
                    c.ok /\ IsVector(c.r, 8, -32768, 32767)

C14_Witness ==
    /\ Len(calls) = 2
    /\ calls[1].op = "insert_epi16"
    /\ calls[1].imm8 = I32_MAX
    /\ calls[1].i = I32_MIN
    /\ calls[1].ok
    /\ calls[1].r[7] = 0
    /\ calls[2].op = "extract_epi16"
    /\ calls[2].imm8 = I32_MIN
    /\ calls[2].ok
    /\ calls[2].r = calls[1].a[0]

\* the normalized distance n(d) of a byte shift
NormalizedDistance(d) == IF 0 <= d /\ d <= 15 THEN d ELSE 16

\* the pattern for distance n of the left (right) shift applied to v
LeftPattern(v, n) == simd_shuffle16(splat(16, 0), v, slli_indices(n))
RightPattern(v, n) == simd_shuffle16(v, splat(16, 0), srli_indices(n))

\* C15: for every i32 d, _mm_slli_si128 and _mm_srli_si128 apply the
\* pattern for n(d), n(d) = d for 0 <= d <= 15 and 16 otherwise; the 17
\* patterns n = 0..16 are pairwise distinct index sequences, and on a
\* vector of distinct non-zero bytes the result is that of no other one.
C15_SeventeenOutcomes ==
    /\ Cardinality({ slli_indices(n) : n \in 0 .. 16 }) = 17
    /\ Cardinality({ srli_indices(n) : n \in 0 .. 16 }) = 17
    /\ \A k \in CallsOf("slli") :
        LET c == calls[k]
            n == NormalizedDistance(c.imm8)
        IN  /\ c.r = LeftPattern(c.a, n)
            /\ c.a = OneToSixteen =>
                    \A m \in 0 .. 16 : m # n => c.r # LeftPattern(c.a, m)
    /\ \A k \in CallsOf("srli") :
        LET c == calls[k]
            n == NormalizedDistance(c.imm8)
        IN  /\ c.r = RightPattern(c.a, n)
            /\ c.a = OneToSixteen =>
                    \A m \in 0 .. 16 : m # n => c.r # RightPattern(c.a, m)

C15_Witness ==
    /\ Len(calls) = 2
    /\ calls[1].op = "srli"
    /\ calls[1].a = OneToSixteen
    /\ calls[1].imm8 = 0
    /\ calls[2].op = "slli"
    /\ calls[2].a = OneToSixteen
    /\ calls[2].imm8 = 65536
    /\ calls[2].r = [j \in 0 .. 15 |-> 0]

\* the argument list s in the reverse order
Reversed(s) == [k \in 1 .. Len(s) |-> s[Len(s) + 1 - k]]

\* the _mm_set_* constructor of as many arguments as s has, applied to s
SetOf(s) ==
    CASE Len(s) = 4 -> _mm_set_epi32(s[1], s[2], s[3], s[4])
      [] Len(s) = 8 ->
            _mm_set_epi16(s[1], s[2], s[3], s[4], s[5], s[6], s[7], s[8])
      [] Len(s) = 16 ->
            _mm_set_epi8(s[1], s[2], s[3], s[4], s[5], s[6], s[7], s[8],
                s[9], s[10], s[11], s[12], s[13], s[14], s[15], s[16])

\* C20: _mm_set_epi32, _mm_set_epi16, _mm_set_epi8 and _mm_set_epi64x put
\* their last argument in lane 0 and their first in the highest lane;
\* _mm_setr_epi32, _mm_setr_epi16 and _mm_setr_epi8 put their first
\* argument in lane 0; so _mm_setr_epi32(w, x, y, z) =
\* _mm_set_epi32(z, y, x, w), and likewise for 8 and 16 lanes.
C20_SetAndSetr ==
    \A k \in 1 .. Len(calls) :
        LET c == calls[k]
            n == Len(c.args)
        IN  /\ c.op \in {"set_epi64x", "set_epi32", "set_epi16", "set_epi8"} =>
                /\ DOMAIN c.r = 0 .. n - 1
                /\ \A j \in 0 .. n - 1 : c.r[j] = c.args[n - j]
            /\ c.op \in {"setr_epi32", "setr_epi16", "setr_epi8"} =>
                /\ DOMAIN c.r = 0 .. n - 1
                /\ \A j \in 0 .. n - 1 : c.r[j] = c.args[j + 1]
                /\ c.r = SetOf(Reversed(c.args))

C20_Witness ==
    /\ Len(calls) = 1
    /\ calls[1].op = "setr_epi8"
    /\ calls[1].args = [k \in 1 .. 16 |-> k - 1]
    /\ calls[1].r = [j \in 0 .. 15 |-> j]
    /\ calls[1].r =
        _mm_set_epi8(15, 14, 13, 12, 11, 10, 9, 8, 7, 6, 5, 4, 3, 2, 1, 0)

\* the result of the intrinsic op called alone
Alone(op, v, imm8) ==
    CASE op = "slli" -> _mm_slli_si128(v, imm8)
      [] op = "srli" -> _mm_srli_si128(v, imm8)
      [] op = "shuffle_epi32" -> _mm_shuffle_epi32(v, imm8)
      [] op = "shufflehi_epi16" -> _mm_shufflehi_epi16(v, imm8)
      [] op = "shufflelo_epi16" -> _mm_shufflelo_epi16(v, imm8)

\* C19: when several threads call the byte shifts and the shuffles at the
\* same time, under every interleaving each call returns the result it
\* returns when it runs alone.
C19_ConcurrentCalls ==
    \A k \in 1 .. Len(calls) :
        calls[k].pc = "done" =>
            calls[k].r = Alone(calls[k].op, calls[k].a, calls[k].imm8)

\* a call returned while a call that bound its local later, with another
\* selector, was still in flight
C19_Witness ==
    /\ Len(calls) = 2
    /\ calls[1].op = "slli"
    /\ calls[1].a = OneToSixteen
    /\ calls[1].imm8 = 1
    /\ calls[1].pc = "done"
    /\ calls[1].r = [j \in 0 .. 15 |-> j]
    /\ calls[2].op = "srli"
    /\ calls[2].imm8 = 15
    /\ calls[2].pc = "bound"

\* C21: the unpack operations interleave one half of a and b: for N lanes
\* and every i < N/2, unpacklo returns lane 2i = a[i] and lane 2i+1 = b[i],
\* and unpackhi returns lane 2i = a[N/2+i] and lane 2i+1 = b[N/2+i].
C21_UnpackInterleaves ==
    \A k \in 1 .. Len(calls) :
        LET c == calls[k]
            n == Lanes(c.a)
            h == IF c.op = "unpackhi" THEN n \div 2 ELSE 0
        IN  /\ n \in {16, 8, 4, 2}
            /\ DOMAIN c.r = 0 .. n - 1
            /\ \A i \in 0 .. (n \div 2) - 1 :
                /\ c.r[2 * i] = c.a[h + i]
                /\ c.r[2 * i + 1] = c.b[h + i]

\* the high halves of (0, .., 7) and (8, .., 15) were interleaved
C21_Witness ==
    /\ Len(calls) = 1
    /\ calls[1].op = "unpackhi"
    /\ calls[1].a = [j \in 0 .. 7 |-> j]
    /\ calls[1].b = [j \in 0 .. 7 |-> 8 + j]
    /\ calls[1].r = [j \in 0 .. 7 |-> IF j % 2 = 0 THEN 4 + j \div 2 ELSE 12 + j \div 2]

\* C22: in each shuffle dispatch every call makes exactly four 4-way
\* decisions, on bits 1:0, 3:2, 5:4 and 7:6 of the control byte in that
\* order, then calls the primitive exactly once, with all four indices
\* resolved to constants in 0..3; the call returns what the intrinsic
\* returns.
C22_FourDecisionsInOrder ==
    \A k \in CallsOf("shuffle_epi32") \cup CallsOf("shufflehi_epi16")
                \cup CallsOf("shufflelo_epi16") :
        LET f == calls[k]
        IN  /\ Len(f.bits) <= 4
            /\ Len(f.sel) = Len(f.bits)
            /\ \A i \in 1 .. Len(f.bits) :
                /\ f.bits[i] = 2 * (i - 1)
                /\ f.sel[i] \in 0 .. 3
                /\ f.sel[i] = Field(f.c, i - 1)
            /\ f.pc \in {"done", "returned"} <=> Len(f.bits) = 4
            /\ f.invoked = (IF f.pc = "returned" THEN 1 ELSE 0)
            /\ f.invoked > 0 => f.resolved = 4
            /\ f.pc = "returned" => f.r = Alone(f.op, f.a, f.imm8)

\* the call _mm_shuffle_epi32((5, 10, 15, 20), 0b00_01_01_11) of the tests
\* went through its four matches and returned (20, 10, 10, 5)
C22_Witness ==
    /\ Len(calls) = 1
    /\ calls[1].op = "shuffle_epi32"
    /\ calls[1].a = [j \in 0 .. 3 |-> 5 * (j + 1)]
    /\ calls[1].imm8 = 23
    /\ calls[1].pc = "returned"
    /\ calls[1].bits = <<0, 2, 4, 6>>
    /\ calls[1].sel = <<3, 1, 1, 0>>
    /\ calls[1].invoked = 1
    /\ calls[1].r = [j \in 0 .. 3 |-> IF j = 0 THEN 20 ELSE IF j = 3 THEN 5 ELSE 10]

\* entry c of the flat table of 256 patterns
FlatTable(c) ==
    <<BitAnd(c, 3), BitAnd(shr(c, 2), 3), BitAnd(shr(c, 4), 3), BitAnd(shr(c, 6), 3)>>

\* the leaf of the nested matches of _mm_shuffle_epi32 that the control
\* byte c reaches, read off the lanes (0, 1, 2, 3)
Leaf(c) ==
    LET r == shuffle_epi32_x01([j \in 0 .. 3 |-> j], c)
    IN  <<r[0], r[1], r[2], r[3]>>

\* C23: the nested matches of _mm_shuffle_epi32 behave as a flat table of
\* 256 entries: the pattern reached for the control byte c is
\* [c & 3, (c >> 2) & 3, (c >> 4) & 3, (c >> 6) & 3], and no other control
\* byte reaches the same leaf.
C23_TreeIsFlatTable ==
    \A k \in 1 .. Len(calls) :
        LET f == calls[k]
        IN  (f.op = "shuffle_epi32" /\ f.pc = "returned") =>
                /\ f.c \in 0 .. 255
                /\ f.sel = FlatTable(f.c)
                /\ Leaf(f.c) = FlatTable(f.c)
                /\ {c2 \in 0 .. 255 : Leaf(c2) = f.sel} = {f.c}

\* the control value -28, whose low byte is 228, reached the leaf
\* (0, 1, 2, 3)
C23_Witness ==
    /\ Len(calls) = 1
    /\ calls[1].op = "shuffle_epi32"
    /\ calls[1].imm8 = -28
    /\ calls[1].c = 228
    /\ calls[1].pc = "returned"
    /\ calls[1].sel = <<0, 1, 2, 3>>
    /\ calls[1].a = [j \in 0 .. 3 |-> 5 * (j + 1)]

\* the control value c with its field j set to f (the other bits kept)
WithField(c, j, f) == c + (f - Field(c, j)) * (4 ^ j)

\* the destination lane that field j of the control of op selects for
TargetLane(op, j) == IF op = "shufflehi_epi16" THEN 4 + j ELSE j

\* C24: the four 2-bit fields act independently: two control values that
\* differ only in field j give results that agree on every lane other than
\* the destination lane of field j (lane j for _mm_shuffle_epi32 and
\* _mm_shufflelo_epi16, lane 4 + j for _mm_shufflehi_epi16).
C24_FieldsIndependent ==
    \A k \in 1 .. Len(calls) :
        LET c == calls[k]
        IN  \A j \in 0 .. 3 : \A f \in 0 .. 3 :
                LET r2 == Apply(c.op, c.a, WithField(c.imm8, j, f))
                IN  /\ DOMAIN r2 = DOMAIN c.r
                    /\ \A i \in DOMAIN c.r :
                            i # TargetLane(c.op, j) => r2[i] = c.r[i]

\* the controls 27 and 24 differ in field 0 only, and their results on
\* (5, 10, 15, 20) differ in lane 0 only
C24_Witness ==
    /\ Len(calls) = 1
    /\ calls[1].op = "shuffle_epi32"
    /\ calls[1].a = [j \in 0 .. 3 |-> 5 * (j + 1)]
    /\ calls[1].imm8 = 27
    /\ WithField(27, 0, 0) = 24
    /\ calls[1].r = [j \in 0 .. 3 |-> 20 - 5 * j]
    /\ _mm_shuffle_epi32(calls[1].a, 24) = [j \in 0 .. 3 |-> IF j = 0 THEN 5 ELSE 20 - 5 * j]

\* the 16-lane vector v with its lanes in the reverse order
Mirror(v) == [j \in 0 .. 15 |-> v[15 - j]]

\* C25: the right byte shift is the mirror of the left byte shift: for
\* every 16-byte vector a and every i32 d, _mm_srli_si128(a, d) is the
\* lane reversal of _mm_slli_si128(reverse(a), d) (and the other way
\* round).
C25_RightMirrorsLeft ==
    /\ \A k \in CallsOf("srli") :
        calls[k].r = Mirror(_mm_slli_si128(Mirror(calls[k].a), calls[k].imm8))
    /\ \A k \in CallsOf("slli") :
        calls[k].r = Mirror(_mm_srli_si128(Mirror(calls[k].a), calls[k].imm8))

\* (1, .., 16) was shifted right by 8, and its reversal shifted left by 8
\* is the reversal of the result
C25_Witness ==
    /\ Len(calls) = 1
    /\ calls[1].op = "srli"
    /\ calls[1].a = OneToSixteen
    /\ calls[1].imm8 = 8
    /\ calls[1].r = [j \in 0 .. 15 |-> IF j < 8 THEN j + 9 ELSE 0]
    /\ _mm_slli_si128(Mirror(OneToSixteen), 8) = [j \in 0 .. 15 |-> IF j < 8 THEN 0 ELSE 24 - j]

\* C26: every lane index handed to the primitive is in range of the two
\* concatenated operands and is computed without unsigned wrap-around: in
\* _mm_slli_si128 the literal shift is in 0..16, no subtraction (16 + j) -
\* shift underflows and every index is in 0..31; in _mm_srli_si128 every
\* index j + shift is in 0..31; in _mm_shuffle_epi32 every index is in
\* 0..3; in _mm_shufflehi_epi16 and _mm_shufflelo_epi16 every index is in
\* 0..7.
C26_IndicesInRange ==
    \A k \in 1 .. Len(calls) :
        LET f == calls[k]
        IN  f.invoked > 0 =>
                /\ Len(f.idx) = Lanes(f.a)
                /\ f.op \in {"slli", "srli"} =>
                    /\ f.sel[1] \in 0 .. 16
                    /\ \A j \in 0 .. 15 :
                        /\ f.idx[j + 1] \in 0 .. 31
                        /\ f.op = "slli" =>
                            /\ 16 + j >= f.sel[1]
                            /\ f.idx[j + 1] = 16 + j - f.sel[1]
                        /\ f.op = "srli" => f.idx[j + 1] = j + f.sel[1]
                /\ f.op = "shuffle_epi32" =>
                    \A j \in 1 .. 4 : f.idx[j] \in 0 .. 3
                /\ f.op \in {"shufflehi_epi16", "shufflelo_epi16"} =>
                    \A j \in 1 .. 8 : f.idx[j] \in 0 .. 7
                /\ f.r = Alone(f.op, f.a, f.imm8)

\* the left shift by the most negative distance took the last arm and
\* handed the indices 0, .., 15 (the zero operand) to the primitive
C26_Witness ==
    /\ Len(calls) = 1
    /\ calls[1].op = "slli"
    /\ calls[1].imm8 = I32_MIN
    /\ calls[1].pc = "returned"
    /\ calls[1].sel = <<16>>
    /\ calls[1].idx = [j \in 1 .. 16 |-> j - 1]
    /\ calls[1].r = [j \in 0 .. 15 |-> 0]

\* C27: byte shifts in the same direction compose additively: for p, q in
\* 0..16, shifting by p and then by q is shifting once by p + q (all zero
\* as soon as p + q >= 16).
C27_ShiftsAdd ==
    (Len(calls) = 2 /\ calls[1].op = calls[2].op
        /\ calls[1].imm8 \in 0 .. 16 /\ calls[2].imm8 \in 0 .. 16) =>
        LET p == calls[1].imm8
            q == calls[2].imm8
            once == IF calls[1].op = "slli"
                    THEN _mm_slli_si128(calls[1].a, p + q)
                    ELSE _mm_srli_si128(calls[1].a, p + q)
        IN  /\ calls[2].a = calls[1].r
            /\ calls[2].r = once
            /\ p + q >= 16 => calls[2].r = [j \in 0 .. 15 |-> 0]

\* (1, .., 16) was shifted right by 9 and then by 4, which is 13 at once
C27_Witness ==
    /\ Len(calls) = 2
    /\ calls[1].op = "srli" /\ calls[2].op = "srli"
    /\ calls[1].a = OneToSixteen
    /\ calls[1].imm8 = 9 /\ calls[2].imm8 = 4
    /\ calls[2].r = [j \in 0 .. 15 |-> IF j < 3 THEN j + 14 ELSE 0]
    /\ calls[2].r = _mm_srli_si128(OneToSixteen, 13)

\* the control byte of the composition: its field i is field number
\* (field i of c2) of c1
Composed(c1, c2) ==
    Field(c1, Field(c2, 0)) + 4 * Field(c1, Field(c2, 1))
        + 16 * Field(c1, Field(c2, 2)) + 64 * Field(c1, Field(c2, 3))

\* C28: 32-bit shuffles are closed under composition: for all control
\* bytes c1 and c2, _mm_shuffle_epi32(_mm_shuffle_epi32(a, c1), c2) is
\* _mm_shuffle_epi32(a, c3), where field i of c3 is field number (field i
\* of c2) of c1.
C28_ShufflesCompose ==
    Len(calls) = 2 =>
        /\ calls[2].a = calls[1].r
        /\ Composed(calls[1].imm8, calls[2].imm8) \in 0 .. 255
        /\ calls[2].r = _mm_shuffle_epi32(calls[1].a,
                            Composed(calls[1].imm8, calls[2].imm8))

\* (5, 10, 15, 20) was shuffled with 0b00_11_00_01 and then with
\* 0b01_00_10_10, which is one shuffle with 0b00_01_11_11
C28_Witness ==
    /\ Len(calls) = 2
    /\ calls[1].a = [j \in 0 .. 3 |-> 5 * (j + 1)]
    /\ calls[1].imm8 = 49
    /\ calls[1].r = [j \in 0 .. 3 |-> IF j = 0 THEN 10 ELSE IF j = 2 THEN 20 ELSE 5]
    /\ calls[2].imm8 = 74
    /\ Composed(49, 74) = 31
    /\ calls[2].r[0] = 20 /\ calls[2].r[1] = 20
    /\ calls[2].r[2] = 10 /\ calls[2].r[3] = 5

\* the four lanes of the 8-lane vector v from lane h on, as a 4-lane vector
Half(v, h) == [j \in 0 .. 3 |-> v[h + j]]

\* C29: the half-vector shuffles agree with the 4-lane shuffle on the half
\* they target: lanes 0..3 of _mm_shufflelo_epi16(a, c) are the 4-lane
\* shuffle with control c of (a[0], .., a[3]), and lanes 4..7 of
\* _mm_shufflehi_epi16(a, c) are that of (a[4], .., a[7]).
C29_HalvesAgreeWithFourLanes ==
    /\ \A k \in CallsOf("shufflelo_epi16") :
        Half(calls[k].r, 0) = _mm_shuffle_epi32(Half(calls[k].a, 0), calls[k].imm8)
    /\ \A k \in CallsOf("shufflehi_epi16") :
        Half(calls[k].r, 4) = _mm_shuffle_epi32(Half(calls[k].a, 4), calls[k].imm8)

\* the high half (5, 10, 15, 20) was reversed by the control 27 - 256, as
\* the 4-lane shuffle reverses it
C29_Witness ==
    /\ Len(calls) = 1
    /\ calls[1].op = "shufflehi_epi16"
    /\ calls[1].a = [j \in 0 .. 7 |-> IF j < 4 THEN j + 1 ELSE 5 * (j - 3)]
    /\ calls[1].imm8 = 27 - 256
    /\ Half(calls[1].r, 4) = [j \in 0 .. 3 |-> 20 - 5 * j]
    /\ _mm_shuffle_epi32(Half(calls[1].a, 4), 27 - 256) = [j \in 0 .. 3 |-> 20 - 5 * j]

\* C30: an insert followed by an extract with the same selector returns
\* the inserted value truncated to 16 bits and sign-extended: the result
\* is the low 16 bits of x read as a signed 16-bit integer, so it lies in
\* -32768..32767 and equals x exactly when x lies in that range.
C30_InsertThenExtract ==
    (Len(calls) = 2 /\ calls[1].op = "insert_epi16"
        /\ calls[2].op = "extract_epi16" /\ calls[2].imm8 = calls[1].imm8) =>
        /\ calls[1].ok /\ calls[2].ok
        /\ calls[2].a = calls[1].r
        /\ calls[2].r = Low16(calls[1].i)
        /\ calls[2].r \in -32768 .. 32767
        /\ calls[2].r = calls[1].i <=> calls[1].i \in -32768 .. 32767

\* 32768 was inserted with the selector -1 and read back as -32768
C30_Witness ==
    /\ Len(calls) = 2
    /\ calls[1].op = "insert_epi16"
    /\ calls[1].a = [j \in 0 .. 7 |-> j]
    /\ calls[1].i = 32768
    /\ calls[1].imm8 = -1
    /\ calls[2].op = "extract_epi16"
    /\ calls[2].imm8 = -1
    /\ calls[2].r = -32768

====
